---- MODULE Spec2Model ----
(***************************************************************************)
(* Model of src/app.js: the name-overlay PDF tool.                         *)
(*                                                                         *)
(* Strings are sequences of one-character strings.  Lengths are plain      *)
(* integers: every width is (advance units) * fontSize, and the vertical   *)
(* coordinates, which the code divides by 2 and multiplies by 1.4, are     *)
(* kept in twentieths of a point so that the arithmetic is exact.          *)
(***************************************************************************)
EXTENDS Integers, Sequences, FiniteSets

(***************************************************************************)
(* Bounds of the model.                                                    *)
(***************************************************************************)
MaxTextLen == 4
MaxInputLen == 2
MaxAdv == 3
MaxWidthUnits == 2
MaxRequests == 2

(***************************************************************************)
(* CONFIG (src/app.js 15-24) and the constants of generatePDF.             *)
(***************************************************************************)
fontSize == 120
lineHeightTenths == 14
textX == 50
topMargin == 180
marginX == 30

Space == " "

Chars == {"a", "b", Space}

RECURSIVE SeqsUpTo(_, _)
SeqsUpTo(S, n) ==
  IF n = 0 THEN {<<>>}
  ELSE LET shorter == SeqsUpTo(S, n - 1)
       IN  shorter \cup {Append(s, c) : s \in {t \in shorter : Len(t) = n - 1}, c \in S}

Texts == SeqsUpTo(Chars, MaxTextLen) \ {<<>>}

(***************************************************************************)
(* The glyph metrics provider (pdf-lib's font.widthOfTextAtSize).  A font  *)
(* gives every character an advance and may replace the pair "a","b" by    *)
(* one glyph (a ligature, a surrogate pair) with an advance of its own, so *)
(* the width of a run need not be the sum of its characters' widths.       *)
(***************************************************************************)
LigFirst == "a"
LigSecond == "b"

Fonts == [adv : [Chars -> 0..MaxAdv], lig : -1..MaxAdv]

HasLig(font) == font.lig >= 0

RECURSIVE RawWidth(_, _)
RawWidth(font, s) ==
  IF s = <<>> THEN 0
  ELSE IF Len(s) >= 2 /\ HasLig(font) /\ s[1] = LigFirst /\ s[2] = LigSecond
       THEN font.lig + RawWidth(font, SubSeq(s, 3, Len(s)))
       ELSE font.adv[s[1]] + RawWidth(font, Tail(s))

widthOfTextAtSize(font, s, size) == RawWidth(font, s) * size

(***************************************************************************)
(* breakTextIntoLines (src/app.js 44-72).                                  *)
(***************************************************************************)
TestLineOld(currentLine, char) == currentLine

TestLine(currentLine, char) == Append(currentLine, char)

OverflowsGE(testWidth, maxWidth, currentLine) ==
  testWidth >= maxWidth /\ Len(currentLine) > 0

OverflowsLT(testWidth, maxWidth, currentLine) ==
  testWidth < maxWidth /\ Len(currentLine) > 0

OverflowsAlways(testWidth, maxWidth, currentLine) == testWidth > maxWidth

Overflows(testWidth, maxWidth, currentLine) ==
  testWidth > maxWidth /\ Len(currentLine) > 0

StartEmptyLine(char) == <<>>

StartNewLine(char) == <<char>>

FlushLast(lines, currentLine) ==
  IF Len(currentLine) > 0 THEN Append(lines, currentLine) ELSE lines

RECURSIVE BreakLoop(_, _, _, _, _, _, _)
BreakLoop(text, font, size, maxWidth, i, lines, currentLine) ==
  IF i > Len(text) THEN [lines |-> lines, currentLine |-> currentLine]
  ELSE LET char == text[i]
           testLine == TestLine(currentLine, char)
           testWidth == widthOfTextAtSize(font, testLine, size)
       IN  IF Overflows(testWidth, maxWidth, currentLine)
           THEN BreakLoop(text, font, size, maxWidth, i + 1,
                          Append(lines, currentLine), StartNewLine(char))
           ELSE BreakLoop(text, font, size, maxWidth, i + 1, lines, testLine)

breakTextIntoLines(text, font, size, maxWidth) ==
  LET end == BreakLoop(text, font, size, maxWidth, 1, <<>>, <<>>)
  IN  FlushLast(end.lines, end.currentLine)

(***************************************************************************)
(* String.prototype.trim, as handleSubmit applies it to the input value.   *)
(***************************************************************************)
RECURSIVE TrimStart(_)
TrimStart(s) ==
  IF s # <<>> /\ Head(s) = Space THEN TrimStart(Tail(s)) ELSE s

RECURSIVE TrimEnd(_)
TrimEnd(s) ==
  IF s # <<>> /\ s[Len(s)] = Space THEN TrimEnd(SubSeq(s, 1, Len(s) - 1)) ELSE s

Trim(s) == TrimEnd(TrimStart(s))

NeverRejects(name) == FALSE

\* if (!name)  (src/app.js 96)
Rejects(name) == name = <<>>

(***************************************************************************)
(* generatePDF, steps 7-9 (src/app.js 155-188).  Vertical coordinates are  *)
(* in twentieths of a point, horizontal ones in half points.               *)
(***************************************************************************)
maxLineWidth(width) == width - (marginX * 2)

lineHeight == 2 * fontSize * lineHeightTenths

targetCenterY(height) == 20 * (height - topMargin) - 10 * fontSize

totalTextHeight(n) == (n - 1) * lineHeight + 20 * fontSize

startYNotHalved(height, n) ==
  targetCenterY(height) + totalTextHeight(n) - 20 * fontSize

startY(height, n) ==
  targetCenterY(height) + (totalTextHeight(n) \div 2) - 20 * fontSize

LineY(height, n, index) == startY(height, n) - (index * lineHeight)

LineXLeftAligned(width, lineWidth) == 2 * textX

LineX(width, lineWidth) == width - lineWidth

\* lines.forEach(...): one drawText call per line, in order.
DrawLines(lines, font, page) ==
  [k \in 1..Len(lines) |->
     [line |-> lines[k],
      x |-> LineX(page.width, widthOfTextAtSize(font, lines[k], fontSize)),
      y |-> LineY(page.height, Len(lines), k - 1)]]

(***************************************************************************)
(* The inputs of a page session.                                           *)
(***************************************************************************)
NameChars == {"a", Space}

InputValues == SeqsUpTo(NameChars, MaxInputLen)

\* CONFIG.fontPath names a monospaced font: every character has the same,
\* positive advance and there is no ligature.
SessionFonts ==
  {f \in Fonts : ~HasLig(f) /\ \A c \in Chars : f.adv[c] = f.adv["a"] /\ f.adv[c] > 0}

\* The template pages of the model: page k leaves k * fontSize between the
\* margins.
PageOf(k) == [width |-> marginX * 2 + fontSize * k, height |-> 800 + 21 * k]

Pages == {PageOf(k) : k \in 1..MaxWidthUnits}

Slots == 1..MaxRequests

Null == 0

Idle == [pc |-> "idle", name |-> <<>>, lines |-> <<>>, placed |-> <<>>]

VARIABLES
  fontFile,         \* the font the server serves at CONFIG.fontPath
  page,             \* size of the first page of the template Cat.pdf
  cachedFontBytes,  \* Null, or the buffer a font fetch produced
  req,              \* the generatePDF invocations in flight, by slot
  loading,          \* loadingEl shown, form hidden
  btnDisabled,      \* generateBtn.disabled
  error,            \* text shown in errorEl, or "hidden"
  success,          \* the success banner is shown
  lText,            \* the layout harness: the name laid out
  lFont,            \* ... its font
  lPage,            \* ... the page of the next call
  lCalls            \* ... the calls made so far

pvars == <<fontFile, page, cachedFontBytes, req, loading, btnDisabled, error, success>>

lvars == <<lText, lFont, lPage, lCalls>>

vars == <<pvars, lvars>>

ProgInit ==
  /\ fontFile \in SessionFonts
  /\ page \in Pages
  /\ cachedFontBytes = Null
  /\ req = [r \in Slots |-> Idle]
  /\ loading = FALSE
  /\ btnDisabled = FALSE
  /\ error = "hidden"
  /\ success = FALSE

LayoutIdle ==
  /\ lText = <<>>
  /\ lFont = [adv |-> [c \in Chars |-> 0], lig |-> -1]
  /\ lPage = [width |-> 0, height |-> 0]
  /\ lCalls = <<>>

Init == ProgInit /\ LayoutIdle

IdleSlots == {r \in Slots : req[r].pc = "idle"}

FreeSlot == CHOOSE r \in IdleSlots : \A q \in IdleSlots : r <= q

\* catch and finally of handleSubmit (src/app.js 109-115)
Fails(r, message) ==
  /\ error' = message
  /\ loading' = FALSE
  /\ btnDisabled' = FALSE
  /\ req' = [req EXCEPT ![r] = Idle]
  /\ UNCHANGED <<fontFile, page, cachedFontBytes, success>>

\* The submit listener, up to the first await of generatePDF
\* (src/app.js 90-107, 121-126).
handleSubmit(value) ==
  LET name == Trim(value)
  IN  IF Rejects(name)
      THEN /\ error' = "empty name"
           /\ UNCHANGED <<fontFile, page, cachedFontBytes, req, loading, btnDisabled,
                          success>>
      ELSE /\ IdleSlots # {}
           /\ loading' = TRUE
           /\ success' = FALSE
           /\ error' = "hidden"
           /\ btnDisabled' = TRUE
           /\ req' = [req EXCEPT ![FreeSlot] = [Idle EXCEPT !.pc = "fetchPdf",
                                                            !.name = name]]
           /\ UNCHANGED <<fontFile, page, cachedFontBytes>>

\* await fetch(pdfPath) resolves (src/app.js 126-130)
PdfResponse(r, ok) ==
  /\ req[r].pc = "fetchPdf"
  /\ IF ok
     THEN /\ req' = [req EXCEPT ![r].pc = "pdfBytes"]
          /\ UNCHANGED <<fontFile, page, cachedFontBytes, loading, btnDisabled, error,
                         success>>
     ELSE Fails(r, "no template")

\* await pdfResponse.arrayBuffer() resolves; the cache test (src/app.js 130-134, 142)
PdfBytes(r) ==
  /\ req[r].pc = "pdfBytes"
  /\ req' = [req EXCEPT ![r].pc =
               IF cachedFontBytes = Null THEN "fetchFont" ELSE "loadPdf"]
  /\ UNCHANGED <<fontFile, page, cachedFontBytes, loading, btnDisabled, error, success>>

\* await fetch(CONFIG.fontPath) resolves (src/app.js 134-138)
FontResponse(r, ok) ==
  /\ req[r].pc = "fetchFont"
  /\ IF ok
     THEN /\ req' = [req EXCEPT ![r].pc = "fontBytes"]
          /\ UNCHANGED <<fontFile, page, cachedFontBytes, loading, btnDisabled, error,
                         success>>
     ELSE Fails(r, "no font")

\* cachedFontBytes = await fontResponse.arrayBuffer() (src/app.js 138-142):
\* every response carries a buffer of its own, named after the slot.
FontBytes(r) ==
  /\ req[r].pc = "fontBytes"
  /\ cachedFontBytes' = r
  /\ req' = [req EXCEPT ![r].pc = "loadPdf"]
  /\ UNCHANGED <<fontFile, page, loading, btnDisabled, error, success>>

\* await PDFDocument.load(pdfBytes) resolves (src/app.js 142-148)
PdfLoaded(r) ==
  /\ req[r].pc = "loadPdf"
  /\ req' = [req EXCEPT ![r].pc = "embedFont"]
  /\ UNCHANGED <<fontFile, page, cachedFontBytes, loading, btnDisabled, error, success>>

\* await pdfDoc.embedFont(...) resolves: layout and drawing (src/app.js 148-191)
FontEmbedded(r) ==
  /\ req[r].pc = "embedFont"
  /\ LET lines == breakTextIntoLines(req[r].name, fontFile, fontSize,
                                     maxLineWidth(page.width))
     IN  req' = [req EXCEPT ![r].pc = "save",
                            ![r].lines = lines,
                            ![r].placed = DrawLines(lines, fontFile, page)]
  /\ UNCHANGED <<fontFile, page, cachedFontBytes, loading, btnDisabled, error, success>>

\* await pdfDoc.save() resolves: downloadPDF, then the finally of handleSubmit
\* (src/app.js 191-192, 198-227, 112-115)
Saved(r) ==
  /\ req[r].pc = "save"
  /\ success' = TRUE
  /\ loading' = FALSE
  /\ btnDisabled' = FALSE
  /\ req' = [req EXCEPT ![r] = Idle]
  /\ UNCHANGED <<fontFile, page, cachedFontBytes, error>>

\* Any of the awaits of generatePDF rejects (src/app.js 109-115)
AwaitRejects(r) ==
  /\ req[r].pc # "idle"
  /\ Fails(r, "rejected")

Submit == (\E value \in InputValues : handleSubmit(value)) /\ UNCHANGED lvars

PdfResponds == (\E r \in Slots : \E ok \in BOOLEAN : PdfResponse(r, ok)) /\ UNCHANGED lvars

PdfBytesRead == (\E r \in Slots : PdfBytes(r)) /\ UNCHANGED lvars

FontResponds == (\E r \in Slots : \E ok \in BOOLEAN : FontResponse(r, ok)) /\ UNCHANGED lvars

FontBytesRead == (\E r \in Slots : FontBytes(r)) /\ UNCHANGED lvars

PdfLoads == (\E r \in Slots : PdfLoaded(r)) /\ UNCHANGED lvars

FontEmbeds == (\E r \in Slots : FontEmbedded(r)) /\ UNCHANGED lvars

Saves == (\E r \in Slots : Saved(r)) /\ UNCHANGED lvars

Rejection == (\E r \in Slots : AwaitRejects(r)) /\ UNCHANGED lvars

Next ==
  \/ Submit
  \/ PdfResponds
  \/ PdfBytesRead
  \/ FontResponds
  \/ FontBytesRead
  \/ PdfLoads
  \/ FontEmbeds
  \/ Saves
  \/ Rejection

Spec == Init /\ [][Next]_vars

(***************************************************************************)
(* The layout engine on its own (steps 7-9 of generatePDF): one text and   *)
(* one font, laid out on the pages PageOf(0), PageOf(1), ... in turn, so  *)
(* that maxWidth is 0, fontSize, 2 * fontSize, ...                         *)
(***************************************************************************)
ProgIdle ==
  /\ fontFile = [adv |-> [c \in Chars |-> 1], lig |-> -1]
  /\ page = PageOf(1)
  /\ cachedFontBytes = Null
  /\ req = [r \in Slots |-> Idle]
  /\ loading = FALSE
  /\ btnDisabled = FALSE
  /\ error = "hidden"
  /\ success = FALSE

LayoutInit ==
  /\ lText \in Texts
  /\ lFont \in Fonts
  /\ lPage = PageOf(0)
  /\ lCalls = <<>>
  /\ ProgIdle

LayOut ==
  /\ lPage \in {PageOf(k) : k \in 0..MaxWidthUnits}
  /\ LET lines == breakTextIntoLines(lText, lFont, fontSize, maxLineWidth(lPage.width))
     IN  lCalls' = Append(lCalls,
                          [maxWidth |-> maxLineWidth(lPage.width),
                           page |-> lPage,
                           status |-> "returned",
                           lines |-> lines,
                           placed |-> DrawLines(lines, lFont, lPage)])
  /\ lPage' = PageOf(((lPage.width - marginX * 2) \div fontSize) + 1)
  /\ UNCHANGED <<lText, lFont>>
  /\ UNCHANGED pvars

LayoutNext == LayOut

SpecLayout == LayoutInit /\ [][LayoutNext]_vars

(***************************************************************************)
(* Preconditions on the metrics provider, over the strings of the model.   *)
(***************************************************************************)
Front(s) == SubSeq(s, 1, Len(s) - 1)

PrefixMonotone(font) ==
  \A s \in Texts : Len(s) >= 2 => RawWidth(font, Front(s)) <= RawWidth(font, s)

SuffixMonotone(font) ==
  \A s \in Texts : Len(s) >= 2 => RawWidth(font, Tail(s)) <= RawWidth(font, s)

SubstringMonotone(font) == PrefixMonotone(font) /\ SuffixMonotone(font)

PrefixMonotoneFonts == {g : g \in {f \in Fonts : PrefixMonotone(f)}}

SubstringMonotoneFonts == {g : g \in {f \in Fonts : SubstringMonotone(f)}}

RECURSIVE Join(_)
Join(lines) == IF lines = <<>> THEN <<>> ELSE Head(lines) \o Join(Tail(lines))

\* Index in the text of the first character of line k.
StartPos(lines, k) == 1 + Len(Join(SubSeq(lines, 1, k - 1)))

AloneAt(lines, i) ==
  \E k \in 1..Len(lines) : Len(lines[k]) = 1 /\ StartPos(lines, k) = i

CallIds == 1..Len(lCalls)

CharWidth(i) == widthOfTextAtSize(lFont, <<lText[i]>>, fontSize)

LineWidth(line) == widthOfTextAtSize(lFont, line, fontSize)

\* C1: joining the lines breakTextIntoLines returns, in order, gives back the
\* input text exactly, for every text, font and maxWidth.
ConcatenationInvariant ==
  \A c \in CallIds : Join(lCalls[c].lines) = lText

ConcatenationWitness ==
  \E c \in CallIds :
    /\ Len(lText) >= 3
    /\ Len(lCalls[c].lines) >= 2
    /\ \E k \in 1..Len(lCalls[c].lines) : Len(lCalls[c].lines[k]) >= 2

WideCharsAlone(c) ==
  \A i \in 1..Len(lText) :
    CharWidth(i) > lCalls[c].maxWidth
      => lCalls[c].status = "returned" /\ AloneAt(lCalls[c].lines, i)

\* C2 as claimed, on the calls with maxWidth > 0: under a metrics provider
\* that is monotonic under prefix extension, every character wider than
\* maxWidth is a line of its own.
WideCharAloneIfPrefixMonotone ==
  lFont \in PrefixMonotoneFonts
    => \A c \in CallIds : lCalls[c].maxWidth > 0 => WideCharsAlone(c)

\* C2, amended: under a metrics provider for which no string is narrower than
\* any of its prefixes or suffixes, every character wider than maxWidth is a
\* line of its own and the call returns normally.
WideCharAloneIfSubstringMonotone ==
  lFont \in SubstringMonotoneFonts => \A c \in CallIds : WideCharsAlone(c)

WideCharAloneWitness ==
  /\ lFont \in SubstringMonotoneFonts
  /\ HasLig(lFont)
  /\ \E c \in CallIds :
       \E i \in 2..(Len(lText) - 1) :
         /\ CharWidth(i) > lCalls[c].maxWidth
         /\ CharWidth(i - 1) <= lCalls[c].maxWidth
         /\ AloneAt(lCalls[c].lines, i)

LineCountNonIncreasing ==
  \A c \in CallIds : \A d \in CallIds :
    (c < d /\ lCalls[c].maxWidth > 0)
      => Len(lCalls[d].lines) <= Len(lCalls[c].lines)

\* C3 as claimed: under a metrics provider that is monotonic under prefix
\* extension, a larger maxWidth never gives more lines.
MonotonicWidthIfPrefixMonotone ==
  lFont \in PrefixMonotoneFonts => LineCountNonIncreasing

\* C3, amended: under a metrics provider for which no string is narrower than
\* any of its prefixes or suffixes, a larger maxWidth (0 < maxWidth1 <=
\* maxWidth2) never gives more lines.
MonotonicWidthIfSubstringMonotone ==
  lFont \in SubstringMonotoneFonts => LineCountNonIncreasing

MonotonicWidthWitness ==
  /\ lFont \in SubstringMonotoneFonts
  /\ HasLig(lFont)
  /\ \E c \in CallIds : \E d \in CallIds :
       /\ c < d
       /\ lCalls[c].maxWidth > 0
       /\ Len(lCalls[d].lines) < Len(lCalls[c].lines)
       /\ Len(lCalls[d].lines) >= 2

\* C6: a call with maxWidth <= 0 or fontSize <= 0 fails with InvalidParameter
\* instead of returning lines.
DegenerateGeometryRejected ==
  \A c \in CallIds :
    (lCalls[c].maxWidth <= 0 \/ fontSize <= 0)
      => lCalls[c].status = "InvalidParameter"

\* C9: for a non-empty text breakTextIntoLines returns at least one line and
\* no empty line, for every font and maxWidth.
NoEmptyLine ==
  \A c \in CallIds :
    /\ Len(lCalls[c].lines) >= 1
    /\ \A k \in 1..Len(lCalls[c].lines) : lCalls[c].lines[k] # <<>>

NoEmptyLineWitness ==
  \E c \in CallIds :
    /\ Len(lText) >= 2
    /\ \A i \in 1..Len(lText) : CharWidth(i) > lCalls[c].maxWidth
    /\ Len(lCalls[c].lines) = Len(lText)

\* C10: the result is the greedy break: a line of more than one character is
\* no wider than maxWidth, and every line but the last, extended by the first
\* character of the next line, is strictly wider than maxWidth (a tentative
\* line exactly as wide as maxWidth stays on the current line).
GreedyBreak ==
  \A c \in CallIds :
    LET lines == lCalls[c].lines
    IN  /\ \A k \in 1..Len(lines) :
             Len(lines[k]) > 1 => LineWidth(lines[k]) <= lCalls[c].maxWidth
        /\ \A k \in 1..(Len(lines) - 1) :
             LineWidth(Append(lines[k], lines[k + 1][1])) > lCalls[c].maxWidth

GreedyBreakWitness ==
  \E c \in CallIds :
    LET lines == lCalls[c].lines
    IN  /\ Len(lines) >= 2
        /\ Len(lines[1]) >= 2
        /\ LineWidth(lines[1]) = lCalls[c].maxWidth
        /\ lCalls[c].maxWidth > 0

Placed(c) == lCalls[c].placed

\* C4: the midpoint of (y of the first line + fontSize) and (y of the last
\* line) is targetCenterY = pageHeight - topMargin - fontSize/2 whatever the
\* number of lines, and each line is fontSize * 1.4 = 168 below the one
\* before it.  (Coordinates in twentieths of a point.)
VerticalAnchorStable ==
  \A c \in CallIds :
    LET n == Len(Placed(c))
    IN  /\ n >= 1
        /\ Placed(c)[1].y + 20 * fontSize + Placed(c)[n].y
             = 2 * (20 * (lCalls[c].page.height - topMargin) - 10 * fontSize)
        /\ \A k \in 1..(n - 1) :
             /\ Placed(c)[k].y - Placed(c)[k + 1].y = 2 * fontSize * lineHeightTenths
             /\ Placed(c)[k].y - Placed(c)[k + 1].y = 20 * 168

VerticalAnchorWitness ==
  \E c \in CallIds : \E d \in CallIds :
    /\ Len(Placed(c)) = 1
    /\ Len(Placed(d)) >= 3

\* C5: one drawText placement per line of breakTextIntoLines, in the same
\* order, each centred: x + lineWidth/2 = pageWidth/2 with lineWidth the
\* line's own measured width, also when the line is wider than the page.
\* (x in half points.)
CenteringSymmetry ==
  \A c \in CallIds :
    /\ Len(Placed(c)) = Len(lCalls[c].lines)
    /\ \A k \in 1..Len(Placed(c)) :
         /\ Placed(c)[k].line = lCalls[c].lines[k]
         /\ Placed(c)[k].x + LineWidth(Placed(c)[k].line) = lCalls[c].page.width

CenteringWitness ==
  \E c \in CallIds :
    /\ Len(Placed(c)) >= 2
    /\ Placed(c)[1].line # Placed(c)[2].line
    /\ \E k \in 1..Len(Placed(c)) : Placed(c)[k].x < 0
    /\ \E k \in 1..Len(Placed(c)) : Placed(c)[k].x > 0

\* C7: a submission whose trimmed name is empty starts no request, so no
\* generatePDF invocation (no fetch, layout or download) ever runs on an
\* empty name and breakTextIntoLines is never called with the empty string.
EmptyNameNeverLaidOut ==
  \A r \in Slots :
    /\ req[r].pc # "idle" => req[r].name # <<>>
    /\ req[r].pc = "save" => req[r].lines # <<>>

EmptyNameRejectedWitness ==
  /\ error = "empty name"
  /\ \E r \in Slots : req[r].pc = "save" /\ Len(req[r].lines) >= 2

\* C8: once cachedFontBytes holds a buffer it is never assigned again,
\* whatever the interleaving of the generatePDF invocations.
CachePopulatedOnce ==
  [][cachedFontBytes # Null => cachedFontBytes' = cachedFontBytes]_vars
====
